---- MODULE Spec2Model ----
(***************************************************************************)
(* Membership reconciliation core of consul/serf.go: the two Serf event    *)
(* dispatchers (lanEventHandler, wanEventHandler), the remote datacenter   *)
(* directory (remoteConsuls under remoteLock), the role-tag classifier     *)
(* (isConsulServer) and the Raft join-retry goroutine (joinConsulServer).  *)
(*                                                                         *)
(* Go strings are modelled as sequences of one-character strings so that   *)
(* strings.HasPrefix, strings.SplitN and strconv.Atoi are computed, not    *)
(* assumed.                                                                *)
(***************************************************************************)
EXTENDS Integers, Sequences, FiniteSets, Bags, TLC

VARIABLES
    eventChWAN,     \* s.eventChWAN: buffered channel of WAN Serf events
    wan,            \* wanEventHandler goroutine: position and locals
    remoteLock,     \* s.remoteLock: "free" or the name of the holder
    remoteConsuls,  \* s.remoteConsuls: map datacenter -> list of addresses
    eventChLAN,     \* s.eventChLAN: buffered channel of LAN Serf events
    lan,            \* lanEventHandler goroutine: position, and the names it warned of
    tasks,          \* joinConsulServer goroutines: a bag of their positions and locals
    raftPeers,      \* peer set held by the Raft layer
    serfLAN,        \* member list of the LAN pool: name -> status
    addPeerLog,     \* every s.raft.AddPeer call issued so far
    shutdown,       \* s.shutdownCh is closed
    crashed,        \* the process died of a runtime panic
    role,           \* classifier harness: the role tag under test
    cls,            \* classifier harness: the classification of role
    reader,         \* a reader of s.remoteConsuls outside this file: its position
    handledWAN      \* history: the WAN events wanEventHandler received, in order

vars == <<eventChWAN, wan, remoteLock, remoteConsuls, eventChLAN, lan,
          tasks, raftPeers, serfLAN, addPeerLog, shutdown, crashed, role, cls,
          reader, handledWAN>>

wanVars == <<eventChWAN, wan, remoteLock, remoteConsuls>>
lanVars == <<eventChLAN, lan, tasks, raftPeers, serfLAN, addPeerLog>>
clsVars == <<role, cls>>
obsVars == <<reader, handledWAN>>

----------------------------------------------------------------------------
(* Bounds of the model *)

MaxFields == 4      \* colon-separated fields of a role tag under test
MaxChan == 1        \* events buffered in an event channel
MaxTasks == 2       \* joinConsulServer goroutines alive or finished
MaxHandled == 2     \* WAN events kept in the history of wanEventHandler

----------------------------------------------------------------------------
(* Strings *)

Colon == ":"
Digits == <<"0", "1", "2", "3", "4", "5", "6", "7", "8", "9">>
DigitSet == {Digits[i] : i \in 1..10}

DigitVal(c) == (CHOOSE i \in 1..10 : Digits[i] = c) - 1

\* strings.HasPrefix(s, prefix)
HasPrefix(s, prefix) ==
    /\ Len(s) >= Len(prefix)
    /\ SubSeq(s, 1, Len(prefix)) = prefix

\* strings.Index(s, ":") + 1, or 0 when there is no colon
IndexColon(s) ==
    IF \E i \in 1..Len(s) : s[i] = Colon
    THEN CHOOSE i \in 1..Len(s) : s[i] = Colon /\ \A j \in 1..(i-1) : s[j] # Colon
    ELSE 0

\* strings.SplitN(s, ":", n) for n >= 1: at most n substrings, the last one
\* being the unsplit remainder
RECURSIVE SplitN(_, _)
SplitN(s, n) ==
    IF n = 1 \/ IndexColon(s) = 0
    THEN <<s>>
    ELSE LET i == IndexColon(s)
         IN  <<SubSeq(s, 1, i - 1)>> \o SplitN(SubSeq(s, i + 1, Len(s)), n - 1)

\* Decimal digits of the largest Go int of a 64-bit build (2^63 - 1) and of
\* the magnitude of the smallest one (2^63)
MaxIntDigits == <<"9","2","2","3","3","7","2","0","3","6","8","5","4","7","7","5","8","0","7">>
MinIntDigits == <<"9","2","2","3","3","7","2","0","3","6","8","5","4","7","7","5","8","0","8">>

RECURSIVE StripZeros(_)
StripZeros(d) ==
    IF Len(d) > 1 /\ d[1] = "0" THEN StripZeros(Tail(d)) ELSE d

\* a <= b for digit strings without leading zeros
RECURSIVE DigitsLeq(_, _)
DigitsLeq(a, b) ==
    IF Len(a) # Len(b) THEN Len(a) < Len(b)
    ELSE IF a = <<>> THEN TRUE
    ELSE IF a[1] # b[1] THEN DigitVal(a[1]) < DigitVal(b[1])
    ELSE DigitsLeq(Tail(a), Tail(b))

RECURSIVE DecValue(_)
DecValue(d) ==
    IF d = <<>> THEN 0
    ELSE 10 * DecValue(SubSeq(d, 1, Len(d) - 1)) + DigitVal(d[Len(d)])

\* strconv.Atoi(s): an optional sign, then one or more decimal digits, the
\* value within the range of int; [err |-> TRUE] otherwise.  (The value of
\* an in-range string of ten or more significant digits is beyond the
\* integers of the model checker; the role tags of the model have none.)
Atoi(s) ==
    LET signed == s # <<>> /\ s[1] \in {"+", "-"}
        neg    == s # <<>> /\ s[1] = "-"
        d      == IF signed THEN Tail(s) ELSE s
        syntax == d # <<>> /\ \A i \in 1..Len(d) : d[i] \in DigitSet
        c      == StripZeros(d)
    IN  IF ~syntax THEN [err |-> TRUE, val |-> 0]
        ELSE IF ~DigitsLeq(c, IF neg THEN MinIntDigits ELSE MaxIntDigits)
             THEN [err |-> TRUE, val |-> 0]
        ELSE [err |-> FALSE, val |-> IF neg THEN 0 - DecValue(c) ELSE DecValue(c)]

----------------------------------------------------------------------------
(* Member classification *)

Marker == <<"c", "o", "n", "s", "u", "l", ":">>       \* "consul:"

NotConsul == [panic |-> FALSE, ok |-> FALSE, dc |-> <<>>, port |-> 0]
Panic     == [panic |-> TRUE,  ok |-> FALSE, dc |-> <<>>, port |-> 0]

\* isConsulServer with the port taken from parts[1], the datacenter field
isConsulServerSwapped(r) ==
    IF ~HasPrefix(r, Marker) THEN NotConsul
    ELSE LET parts == SplitN(r, 3)
         IN  IF Len(parts) < 3 THEN Panic
             ELSE LET a == Atoi(parts[2])
                  IN  IF a.err THEN NotConsul
                      ELSE [panic |-> FALSE, ok |-> TRUE, dc |-> parts[3], port |-> a.val]

\* isConsulServer(m) on m.Role.  parts[2] is an index out of range, a
\* runtime panic, when the tag has a single colon.
isConsulServer(r) ==
    IF ~HasPrefix(r, Marker) THEN NotConsul
    ELSE LET parts == SplitN(r, 3)
         IN  IF Len(parts) < 3 THEN Panic
             ELSE LET a == Atoi(parts[3])
                  IN  IF a.err THEN NotConsul
                      ELSE [panic |-> FALSE, ok |-> TRUE, dc |-> parts[2], port |-> a.val]

----------------------------------------------------------------------------
(* Addresses *)

\* net.IP values: the 4-byte and the 16-byte form of the same IPv4 host are
\* different byte slices with the same String()
IP4(h)  == [len |-> 4,  host |-> h]
IP16(h) == [len |-> 16, host |-> h]

\* net.IP.String(): the dotted text of the host, whatever the form
IPString(ip) == ip.host

\* &net.TCPAddr{IP: m.Addr, Port: port}
TCPAddr(ip, port) == [IP |-> ip, Port |-> port]

\* net.TCPAddr.String(): host ":" port, kept as the pair of its two parts
AddrString(a) == <<IPString(a.IP), a.Port>>

\* the host:port strings of a list of addresses
Strings(list) == {AddrString(list[i]) : i \in 1..Len(list)}

\* occurrences of the host:port string str in a list of addresses
Count(list, str) == Cardinality({i \in 1..Len(list) : AddrString(list[i]) = str})

----------------------------------------------------------------------------
(* Serf events *)

EventMemberJoin   == "member-join"
EventMemberLeave  == "member-leave"
EventMemberFailed == "member-failed"
EventUser         == "user"
EventOther        == "other"        \* any event type the switch does not name

MemberEventTypes == {EventMemberJoin, EventMemberLeave, EventMemberFailed}

RoleDc1      == Marker \o <<"d","c","1",":","8","3","0","0">>   \* consul:dc1:8300
RoleDc2      == Marker \o <<"d","c","2",":","8","3","0","0">>   \* consul:dc2:8300
RoleDc2Alt   == Marker \o <<"d","c","2",":","8","3","0","1">>   \* consul:dc2:8301
RoleDc3      == Marker \o <<"d","c","3",":","8","3","0","0">>   \* consul:dc3:8300
RoleNode     == <<"n","o","d","e">>                             \* node
RoleNoPort   == Marker \o <<"d","c","2">>                       \* consul:dc2

Member(name, ip, r) == [Name |-> name, Addr |-> ip, Role |-> r]

\* ok, dc, port := s.isConsulServer(m), computed once for each role tag that
\* the members of the two pools carry
Classified ==
    [r \in {RoleDc1, RoleDc2, RoleDc2Alt, RoleDc3, RoleNode, RoleNoPort} |-> isConsulServer(r)]

Classification(m) == Classified[m.Role]

WanA    == Member("w1", IP4("10.0.0.1"),  RoleDc2)
WanA16  == Member("w1", IP16("10.0.0.1"), RoleDc2)
WanB    == Member("w2", IP4("10.0.0.2"),  RoleDc2)
WanC    == Member("w3", IP4("10.0.0.1"),  RoleDc2Alt)
WanD    == Member("w4", IP4("10.0.0.1"),  RoleDc3)
WanNode == Member("w5", IP4("10.0.0.2"),  RoleNode)
WanBad  == Member("w6", IP4("10.0.0.2"),  RoleNoPort)

\* members the WAN pool reports
WanMembers == {WanA, WanA16, WanB, WanC, WanD, WanNode, WanBad}

\* member lists of the WAN events: every server alone, a server after a
\* member that is none, and a server before a member whose tag is cut short
WanMemberLists ==
    {<<m>> : m \in {WanA, WanA16, WanB, WanC, WanD}}
        \cup {<<WanNode, WanA>>, <<WanB, WanBad>>}

NoMembers == <<>>

Event(type, members) == [Type |-> type, Members |-> members]

\* events of the WAN pool: joins and failures of every member list, a leave
\* (which wanEventHandler hands to remoteFailed as well), a user event and
\* an event of a type the switch does not name
WanEvents ==
    {Event(t, ms) : t \in {EventMemberJoin, EventMemberFailed}, ms \in WanMemberLists}
        \cup {Event(EventMemberLeave, <<WanA>>),
              Event(EventUser, NoMembers), Event(EventOther, NoMembers)}

\* a few of the WAN events: a join, a join of a non-server and a server, a
\* failure, and a failure of a server and of a member with a malformed tag
WanFewEvents ==
    { Event(EventMemberJoin, <<WanA>>),
      Event(EventMemberJoin, <<WanNode, WanB>>),
      Event(EventMemberFailed, <<WanA>>),
      Event(EventMemberFailed, <<WanB, WanBad>>) }

----------------------------------------------------------------------------
(* Remote datacenter directory: remoteJoin and remoteFailed *)

\* s.remoteConsuls[dc]: nil for a datacenter that is not a key
Lookup(dir, dc) == IF dc \in DOMAIN dir THEN dir[dc] ELSE <<>>

\* s.remoteConsuls[dc] = list
Store(dir, dc, list) ==
    [k \in DOMAIN dir \cup {dc} |-> IF k = dc THEN list ELSE dir[k]]

\* delete(s.remoteConsuls, dc)
Delete(dir, dc) == [k \in DOMAIN dir \ {dc} |-> dir[k]]

\* the scan comparing the address structures instead of their String()
FoundSameStruct(existing, addr) ==
    \E i \in 1..Len(existing) : existing[i] = addr

\* the scan of remoteJoin and of remoteFailed: some entry has the String()
\* of addr
Found(existing, addr) ==
    \E i \in 1..Len(existing) : AddrString(existing[i]) = AddrString(addr)

\* remoteJoin without the scan: the address is always appended
RemoteJoinAlways(dir, dc, addr) == Store(dir, dc, Append(Lookup(dir, dc), addr))

\* the critical section of remoteJoin for one member
RemoteJoinMember(dir, dc, addr) ==
    LET existing == Lookup(dir, dc)
    IN  IF ~Found(existing, addr)
        THEN Store(dir, dc, Append(existing, addr))
        ELSE dir

\* the scan of remoteFailed truncating without the swap: the last entry is
\* dropped, whichever entry matched
TruncateOnly(existing, addr) ==
    IF Found(existing, addr)
    THEN SubSeq(existing, 1, Len(existing) - 1)
    ELSE existing

\* the scan of remoteFailed overwriting the entry found with the first entry
\* of the list instead of the last
SwapWithFirst(existing, addr) ==
    LET n == Len(existing)
    IN  IF Found(existing, addr)
        THEN LET i == CHOOSE i \in 1..n :
                        /\ AddrString(existing[i]) = AddrString(addr)
                        /\ \A j \in 1..(i-1) : AddrString(existing[j]) # AddrString(addr)
             IN  [k \in 1..(n-1) |-> IF k = i THEN existing[1] ELSE existing[k]]
        ELSE existing

\* the scan of remoteFailed: existing with its first entry of the String()
\* of addr overwritten by the last entry, and truncated by one
SwapRemove(existing, addr) ==
    LET n == Len(existing)
    IN  IF Found(existing, addr)
        THEN LET i == CHOOSE i \in 1..n :
                        /\ AddrString(existing[i]) = AddrString(addr)
                        /\ \A j \in 1..(i-1) : AddrString(existing[j]) # AddrString(addr)
             IN  [k \in 1..(n-1) |-> IF k = i THEN existing[n] ELSE existing[k]]
        ELSE existing

\* remoteFailed that stores the list even when it is empty
RemoteFailedKeepKey(dir, dc, addr) ==
    Store(dir, dc, SwapRemove(Lookup(dir, dc), addr))

\* the critical section of remoteFailed for one member
RemoteFailedMember(dir, dc, addr) ==
    LET existing == SwapRemove(Lookup(dir, dc), addr)
    IN  IF Len(existing) = 0
        THEN Delete(dir, dc)
        ELSE Store(dir, dc, existing)

----------------------------------------------------------------------------
(* wanEventHandler *)

WanIdle == [pc |-> "select", Type |-> "none", Members |-> NoMembers, i |-> 0, hit |-> FALSE]

\* the member the loop of remoteJoin / remoteFailed is at
WanMember == wan.Members[wan.i]

\* Serf delivers an event of the WAN pool
WanSend ==
    /\ ~crashed
    /\ Len(eventChWAN) < MaxChan
    /\ \E e \in WanEvents : eventChWAN' = Append(eventChWAN, e)
    /\ UNCHANGED <<wan, remoteLock, remoteConsuls, lanVars, shutdown, crashed, clsVars, obsVars>>

\* Serf delivers one of a few events of the WAN pool
WanSendFew ==
    /\ ~crashed
    /\ Len(eventChWAN) < MaxChan
    /\ \E e \in WanFewEvents : eventChWAN' = Append(eventChWAN, e)
    /\ UNCHANGED <<wan, remoteLock, remoteConsuls, lanVars, shutdown, crashed, clsVars, obsVars>>

\* a for loop whose shutdown case only breaks out of the select: the
\* receive case is taken again after it
WanTakeAfterReturn ==
    /\ ~crashed
    /\ wan.pc \in {"select", "returned"}
    /\ eventChWAN # <<>>
    /\ LET e == Head(eventChWAN)
       IN  /\ eventChWAN' = Tail(eventChWAN)
           /\ wan' = IF e.Type \in MemberEventTypes
                     THEN [pc |-> "loop", Type |-> e.Type, Members |-> e.Members,
                           i |-> 1, hit |-> FALSE]
                     ELSE WanIdle
    /\ UNCHANGED <<remoteLock, remoteConsuls, lanVars, shutdown, crashed, clsVars, reader>>

\* the handler run as a goroutine of its own (go s.remoteJoin(e)): the next
\* event is received while the loop over the members of the last is going
WanTakeWhileHandling ==
    /\ ~crashed
    /\ wan.pc \in {"select", "loop"}
    /\ eventChWAN # <<>>
    /\ LET e == Head(eventChWAN)
       IN  /\ eventChWAN' = Tail(eventChWAN)
           /\ wan' = IF e.Type \in MemberEventTypes
                     THEN [pc |-> "loop", Type |-> e.Type, Members |-> e.Members,
                           i |-> 1, hit |-> FALSE]
                     ELSE WanIdle
    /\ UNCHANGED <<remoteLock, remoteConsuls, lanVars, shutdown, crashed, clsVars, reader>>

\* case e := <-s.eventChWAN, and the switch on e.EventType()
WanTake ==
    /\ ~crashed
    /\ wan.pc = "select"
    /\ eventChWAN # <<>>
    /\ LET e == Head(eventChWAN)
       IN  /\ eventChWAN' = Tail(eventChWAN)
           /\ wan' = IF e.Type \in MemberEventTypes
                     THEN [pc |-> "loop", Type |-> e.Type, Members |-> e.Members,
                           i |-> 1, hit |-> FALSE]
                     ELSE WanIdle
    /\ UNCHANGED <<remoteLock, remoteConsuls, lanVars, shutdown, crashed, clsVars, reader>>

\* the receive case, the history left alone
WanRecv == WanTake /\ UNCHANGED handledWAN

\* the receive case, the event received going to the history
WanRecvLogged ==
    /\ Len(handledWAN) < MaxHandled
    /\ eventChWAN # <<>>
    /\ handledWAN' = Append(handledWAN, Head(eventChWAN))
    /\ WanTake

\* case <-s.shutdownCh: return
WanReturn ==
    /\ ~crashed
    /\ wan.pc = "select"
    /\ shutdown
    /\ wan' = [WanIdle EXCEPT !.pc = "returned"]
    /\ UNCHANGED <<eventChWAN, remoteLock, remoteConsuls, lanVars, shutdown, crashed, clsVars, obsVars>>

\* the range loop of remoteJoin / remoteFailed is over: back to the select
WanLoopEnd ==
    /\ ~crashed
    /\ wan.pc = "loop"
    /\ wan.i > Len(wan.Members)
    /\ wan' = WanIdle
    /\ UNCHANGED <<eventChWAN, remoteLock, remoteConsuls, lanVars, shutdown, crashed, clsVars, obsVars>>

\* isConsulServer(m) panics: the process dies
WanPanic ==
    /\ ~crashed
    /\ wan.pc = "loop"
    /\ wan.i <= Len(wan.Members)
    /\ Classification(WanMember).panic
    /\ crashed' = TRUE
    /\ UNCHANGED <<wanVars, lanVars, shutdown, clsVars, obsVars>>

\* if !ok { continue }
WanSkip ==
    /\ ~crashed
    /\ wan.pc = "loop"
    /\ wan.i <= Len(wan.Members)
    /\ LET c == Classification(WanMember)
       IN  ~c.panic /\ ~c.ok
    /\ wan' = [wan EXCEPT !.i = @ + 1, !.hit = FALSE]
    /\ UNCHANGED <<eventChWAN, remoteLock, remoteConsuls, lanVars, shutdown, crashed, clsVars, obsVars>>

\* remoteJoin / remoteFailed going into the critical section without
\* s.remoteLock.Lock() granting it
WanLockNoWait ==
    /\ ~crashed
    /\ wan.pc = "loop"
    /\ wan.i <= Len(wan.Members)
    /\ Classification(WanMember).ok
    /\ remoteLock' = "wan"
    /\ wan' = [wan EXCEPT !.pc = "locked", !.hit = FALSE]
    /\ UNCHANGED <<eventChWAN, remoteConsuls, lanVars, shutdown, crashed, clsVars, obsVars>>

\* s.remoteLock.Lock() for a member that is a Consul server
WanLock ==
    /\ ~crashed
    /\ wan.pc = "loop"
    /\ wan.i <= Len(wan.Members)
    /\ Classification(WanMember).ok
    /\ remoteLock = "free"
    /\ remoteLock' = "wan"
    /\ wan' = [wan EXCEPT !.pc = "locked", !.hit = FALSE]
    /\ UNCHANGED <<eventChWAN, remoteConsuls, lanVars, shutdown, crashed, clsVars, obsVars>>

\* remoteJoin from the scan to s.remoteLock.Unlock()
RemoteJoin ==
    /\ ~crashed
    /\ wan.pc = "locked"
    /\ wan.Type = EventMemberJoin
    /\ LET c    == Classification(WanMember)
           addr == TCPAddr(WanMember.Addr, c.port)
       IN  /\ remoteConsuls' = RemoteJoinMember(remoteConsuls, c.dc, addr)
           /\ wan' = [wan EXCEPT !.pc = "loop", !.i = @ + 1,
                                 !.hit = Found(Lookup(remoteConsuls, c.dc), addr)]
    /\ remoteLock' = "free"
    /\ UNCHANGED <<eventChWAN, lanVars, shutdown, crashed, clsVars, obsVars>>

\* remoteFailed from the scan to s.remoteLock.Unlock()
RemoteFailed ==
    /\ ~crashed
    /\ wan.pc = "locked"
    /\ wan.Type \in {EventMemberLeave, EventMemberFailed}
    /\ LET c    == Classification(WanMember)
           addr == TCPAddr(WanMember.Addr, c.port)
       IN  /\ remoteConsuls' = RemoteFailedMember(remoteConsuls, c.dc, addr)
           /\ wan' = [wan EXCEPT !.pc = "loop", !.i = @ + 1,
                                 !.hit = Found(Lookup(remoteConsuls, c.dc), addr)]
    /\ remoteLock' = "free"
    /\ UNCHANGED <<eventChWAN, lanVars, shutdown, crashed, clsVars, obsVars>>

\* s.shutdownCh is closed
Shutdown ==
    /\ ~crashed
    /\ ~shutdown
    /\ shutdown' = TRUE
    /\ UNCHANGED <<wanVars, lanVars, crashed, clsVars, obsVars>>

----------------------------------------------------------------------------
(* The LAN pool: configuration, members, events *)

NodeName   == "self"                    \* s.config.NodeName
Datacenter == <<"d", "c", "1">>         \* s.config.Datacenter

StatusNone    == "none"
StatusAlive   == "alive"
StatusLeft    == "left"
StatusFailed  == "failed"

LanSelf    == Member(NodeName, IP4("10.0.0.9"), RoleDc1)
LanA       == Member("n1", IP4("10.0.0.1"), RoleDc1)
LanForeign == Member("n2", IP4("10.0.0.2"), RoleDc2)
LanNode    == Member("n3", IP4("10.0.0.3"), RoleNode)
LanBad     == Member("n3", IP4("10.0.0.3"), RoleNoPort)

LanMembers == {LanSelf, LanA, LanForeign, LanNode, LanBad}

\* member lists of the LAN events: this node, a server of this datacenter
\* and a server of another one alone; a server after a member that is none,
\* and before a member whose tag is cut short
LanMemberLists ==
    {<<LanSelf>>, <<LanA>>, <<LanForeign>>, <<LanNode, LanA>>, <<LanA, LanBad>>}

LanEvents ==
    {Event(EventMemberJoin, ms) : ms \in LanMemberLists}
        \cup {Event(t, <<LanA>>) : t \in {EventMemberLeave, EventMemberFailed}}
        \cup {Event(EventUser, NoMembers), Event(EventOther, NoMembers)}

\* a few of the LAN events: a join, and one event of each other handled type
LanFewEvents ==
    { Event(EventMemberJoin, <<LanA>>),
      Event(EventMemberLeave, <<LanA>>),
      Event(EventMemberFailed, <<LanA>>),
      Event(EventUser, NoMembers) }

\* the member list starts with this node alone, alive; of the other members
\* it is n1 whose status joinConsulServer looks up, and gossip changes it
InitSerfLAN == (NodeName :> StatusAlive)

----------------------------------------------------------------------------
(* localJoin *)

\* dc != s.config.Datacenter, never true
WrongClusterNever(dc) == FALSE

\* dc != s.config.Datacenter
WrongCluster(dc) == dc # Datacenter

\* localJoin over the members from index i on: the goroutines it starts,
\* the names it warns of, and whether isConsulServer panicked on the way
RECURSIVE LocalJoinFrom(_, _)
LocalJoinFrom(members, i) ==
    IF i > Len(members)
    THEN [spawn |-> <<>>, warned |-> {}, panic |-> FALSE]
    ELSE LET m == members[i]
             c == Classification(m)
         IN  IF c.panic THEN [spawn |-> <<>>, warned |-> {}, panic |-> TRUE]
             ELSE LET rest == LocalJoinFrom(members, i + 1)
                  IN  IF ~c.ok THEN rest
                      ELSE IF WrongCluster(c.dc)
                           THEN [rest EXCEPT !.warned = @ \cup {m.Name}]
                      ELSE [rest EXCEPT !.spawn = <<[m |-> m, port |-> c.port]>> \o @]

localJoin(me) == LocalJoinFrom(me.Members, 1)

----------------------------------------------------------------------------
(* joinConsulServer *)

NoPeers   == {}
Unchecked == "unchecked"

\* go s.joinConsulServer(m, port): the goroutine at its first statement
NewTask(m, port) ==
    [m |-> m, port |-> port, pc |-> "start", peers |-> NoPeers,
     live |-> Unchecked, exit |-> "running", added |-> 0]

RECURSIVE NewTasks(_)
NewTasks(spawn) ==
    IF spawn = <<>> THEN EmptyBag
    ELSE SetToBag({NewTask(spawn[1].m, spawn[1].port)}) (+) NewTasks(Tail(spawn))

\* addr of a goroutine
TaskAddr(t) == TCPAddr(t.m.Addr, t.port)

\* m.Name == s.config.NodeName, never true
IsSelfNever(m) == FALSE

\* m.Name == s.config.NodeName
IsSelf(m) == m.Name = NodeName

\* the scan of the peers comparing the addresses as pointers: no peer read
\* from Raft is the address just built
IsPeerSamePointer(peers, addr) == FALSE

\* the scan of the peers: some p has the String() of addr
IsPeer(peers, addr) == \E p \in peers : AddrString(p) = AddrString(addr)

\* s.serfLAN.Members(): the members in some order
RECURSIVE MembersOf(_)
MembersOf(names) ==
    IF names = {} THEN <<>>
    ELSE LET n == CHOOSE n \in names : TRUE
         IN  <<[Name |-> n, Status |-> serfLAN[n]]>> \o MembersOf(names \ {n})

Members == MembersOf(DOMAIN serfLAN)

\* memberStatus(members, name)
RECURSIVE memberStatus(_, _)
memberStatus(members, name) ==
    IF members = <<>> THEN StatusNone
    ELSE IF members[1].Name = name THEN members[1].Status
    ELSE memberStatus(Tail(members), name)

\* the bail test letting every status but failed through
NotAliveOnlyFailed(status) == status = StatusFailed

\* memberStatus(...) != serf.StatusAlive
NotAlive(status) == status # StatusAlive

\* the status of name in the member list, StatusNone if it is not there
StatusOf(name) == IF name \in DOMAIN serfLAN THEN serfLAN[name] ELSE StatusNone

\* one goroutine goes from t to u
TaskStep(t, u) == tasks' = (tasks (-) SetToBag({t})) (+) SetToBag({u})

\* return: the goroutine is over, why tells the return statement taken
Done(t, why) == [t EXCEPT !.pc = "done", !.exit = why]

\* Peers() failed and the goroutine returns instead of waiting
PeersFailedReturn(t) == Done(t, "error")

\* if err != nil after s.raftPeers.Peers(): the warning, then goto WAIT
PeersFailed(t) == [t EXCEPT !.pc = "WAIT", !.peers = NoPeers]

\* AddPeer without the return of the else branch: success falls through to
\* WAIT like a failure
AddPeerReturnRetry(t, err) ==
    [t EXCEPT !.pc = "WAIT", !.peers = NoPeers, !.live = Unchecked,
              !.added = IF err THEN @ ELSE @ + 1]

\* if err := future.Error(); err != nil { log } else { return }, an error
\* falling through to WAIT.  added counts the successes the goroutine got.
AddPeerReturn(t, err) ==
    IF err
    THEN [t EXCEPT !.pc = "WAIT", !.peers = NoPeers, !.live = Unchecked]
    ELSE Done([t EXCEPT !.added = @ + 1], "added")

\* the select after the sleep with its cases swapped over: always goto CHECK
WaitReturnIgnore(t, closed) == [t EXCEPT !.pc = "CHECK"]

\* the select with its test the wrong way round: the goroutine returns while
\* the channel is open and goes on once it is closed
WaitReturnOnOpen(t, closed) ==
    IF closed THEN [t EXCEPT !.pc = "CHECK"] ELSE Done(t, "shutdown")

\* select { case <-s.shutdownCh: return; default: goto CHECK }
WaitReturn(t, closed) ==
    IF closed THEN Done(t, "shutdown") ELSE [t EXCEPT !.pc = "CHECK"]

\* if m.Name == s.config.NodeName { return }
TaskStart ==
    /\ ~crashed
    /\ \E t \in BagToSet(tasks) :
        /\ t.pc = "start"
        /\ TaskStep(t, IF IsSelf(t.m) THEN Done(t, "self") ELSE [t EXCEPT !.pc = "CHECK"])
    /\ UNCHANGED <<wanVars, eventChLAN, lan, raftPeers, serfLAN, addPeerLog,
                   shutdown, crashed, clsVars, obsVars>>

\* CHECK: s.raftPeers.Peers() fails: goto WAIT.  (peers and the status seen
\* are dead on the way to WAIT, CHECK assigns them anew; they are cleared.)
TaskPeersFail ==
    /\ ~crashed
    /\ \E t \in BagToSet(tasks) :
        /\ t.pc = "CHECK"
        /\ TaskStep(t, PeersFailed(t))
    /\ UNCHANGED <<wanVars, eventChLAN, lan, raftPeers, serfLAN, addPeerLog,
                   shutdown, crashed, clsVars, obsVars>>

\* CHECK: s.raftPeers.Peers() succeeds; return if addr is a peer already
TaskPeers ==
    /\ ~crashed
    /\ \E t \in BagToSet(tasks) :
        /\ t.pc = "CHECK"
        /\ LET u == [t EXCEPT !.peers = raftPeers]
           IN  TaskStep(t, IF IsPeer(raftPeers, TaskAddr(t))
                           THEN Done(u, "peer")
                           ELSE [u EXCEPT !.pc = "ALIVE"])
    /\ UNCHANGED <<wanVars, eventChLAN, lan, raftPeers, serfLAN, addPeerLog,
                   shutdown, crashed, clsVars, obsVars>>

\* return if memberStatus(s.serfLAN.Members(), m.Name) is not StatusAlive
TaskAlive ==
    /\ ~crashed
    /\ \E t \in BagToSet(tasks) :
        /\ t.pc = "ALIVE"
        /\ LET u == [t EXCEPT !.live = StatusOf(t.m.Name)]
           IN  TaskStep(t, IF NotAlive(memberStatus(Members, t.m.Name))
                           THEN Done(u, "dead")
                           ELSE [u EXCEPT !.pc = "ADD"])
    /\ UNCHANGED <<wanVars, eventChLAN, lan, raftPeers, serfLAN, addPeerLog,
                   shutdown, crashed, clsVars, obsVars>>

\* the request s.raft.AddPeer(addr) as the log keeps it
Request(t) == [m |-> t.m, addr |-> TaskAddr(t), peers |-> t.peers, live |-> t.live]

\* future = s.raft.AddPeer(addr); future.Error() is nil: return
TaskAddPeer ==
    /\ ~crashed
    /\ \E t \in BagToSet(tasks) :
        /\ t.pc = "ADD"
        /\ addPeerLog' = addPeerLog \cup {Request(t)}
        /\ raftPeers' = raftPeers \cup {TaskAddr(t)}
        /\ TaskStep(t, AddPeerReturn(t, FALSE))
    /\ UNCHANGED <<wanVars, eventChLAN, lan, serfLAN, shutdown, crashed, clsVars, obsVars>>

\* future = s.raft.AddPeer(addr); future.Error() is an error: on to WAIT
TaskAddPeerFail ==
    /\ ~crashed
    /\ \E t \in BagToSet(tasks) :
        /\ t.pc = "ADD"
        /\ addPeerLog' = addPeerLog \cup {Request(t)}
        /\ TaskStep(t, AddPeerReturn(t, TRUE))
    /\ UNCHANGED <<wanVars, eventChLAN, lan, raftPeers, serfLAN, shutdown, crashed, clsVars, obsVars>>

\* WAIT: time.Sleep, then return if s.shutdownCh is closed, else goto CHECK
TaskWait ==
    /\ ~crashed
    /\ \E t \in BagToSet(tasks) :
        /\ t.pc = "WAIT"
        /\ TaskStep(t, WaitReturn(t, shutdown))
    /\ UNCHANGED <<wanVars, eventChLAN, lan, raftPeers, serfLAN, addPeerLog,
                   shutdown, crashed, clsVars, obsVars>>

----------------------------------------------------------------------------
(* lanEventHandler *)

LanIdle == [pc |-> "select", warned |-> {}]

\* Serf delivers an event of the LAN pool
LanSend ==
    /\ ~crashed
    /\ Len(eventChLAN) < MaxChan
    /\ \E e \in LanEvents : eventChLAN' = Append(eventChLAN, e)
    /\ UNCHANGED <<wanVars, lan, tasks, raftPeers, serfLAN, addPeerLog,
                   shutdown, crashed, clsVars, obsVars>>

\* Serf delivers one of a few events of the LAN pool
LanSendFew ==
    /\ ~crashed
    /\ Len(eventChLAN) < MaxChan
    /\ \E e \in LanFewEvents : eventChLAN' = Append(eventChLAN, e)
    /\ UNCHANGED <<wanVars, lan, tasks, raftPeers, serfLAN, addPeerLog,
                   shutdown, crashed, clsVars, obsVars>>

\* Serf delivers the join of a server and of a member with a malformed tag
LanSendBad ==
    /\ ~crashed
    /\ Len(eventChLAN) < MaxChan
    /\ eventChLAN' = Append(eventChLAN, Event(EventMemberJoin, <<LanA, LanBad>>))
    /\ UNCHANGED <<wanVars, lan, tasks, raftPeers, serfLAN, addPeerLog,
                   shutdown, crashed, clsVars, obsVars>>

\* gossip gives n1 another status in the member list of the LAN pool, or
\* reaps it from the list
SerfUpdate ==
    /\ ~crashed
    /\ \/ \E st \in {StatusAlive, StatusLeft, StatusFailed} :
            /\ StatusOf("n1") # st
            /\ serfLAN' = [n \in DOMAIN serfLAN \cup {"n1"} |->
                              IF n = "n1" THEN st ELSE serfLAN[n]]
       \/ /\ StatusOf("n1") \in {StatusLeft, StatusFailed}
          /\ serfLAN' = [n \in DOMAIN serfLAN \ {"n1"} |-> serfLAN[n]]
    /\ UNCHANGED <<wanVars, eventChLAN, lan, tasks, raftPeers, addPeerLog,
                   shutdown, crashed, clsVars, obsVars>>

\* case e := <-s.eventChLAN with a member-join event: localJoin(e)
LanJoin ==
    /\ ~crashed
    /\ lan.pc = "select"
    /\ eventChLAN # <<>>
    /\ Head(eventChLAN).Type = EventMemberJoin
    /\ LET r == localJoin(Head(eventChLAN))
       IN  /\ BagCardinality(tasks) + Len(r.spawn) <= MaxTasks
           /\ tasks' = tasks (+) NewTasks(r.spawn)
           /\ lan' = [lan EXCEPT !.warned = @ \cup r.warned]
           /\ crashed' = r.panic
    /\ eventChLAN' = Tail(eventChLAN)
    /\ UNCHANGED <<wanVars, raftPeers, serfLAN, addPeerLog, shutdown, clsVars, obsVars>>

\* localLeave / localFailed / localEvent with a body that resets the
\* directory
LanOtherDrops ==
    /\ ~crashed
    /\ lan.pc = "select"
    /\ eventChLAN # <<>>
    /\ Head(eventChLAN).Type # EventMemberJoin
    /\ eventChLAN' = Tail(eventChLAN)
    /\ remoteConsuls' = <<>>
    /\ UNCHANGED <<eventChWAN, wan, remoteLock, lan, tasks, raftPeers, serfLAN,
                   addPeerLog, shutdown, crashed, clsVars, obsVars>>

\* case e := <-s.eventChLAN with any other event: localLeave, localFailed,
\* localEvent, or the warning of the default case
LanOther ==
    /\ ~crashed
    /\ lan.pc = "select"
    /\ eventChLAN # <<>>
    /\ Head(eventChLAN).Type # EventMemberJoin
    /\ eventChLAN' = Tail(eventChLAN)
    /\ UNCHANGED <<wanVars, lan, tasks, raftPeers, serfLAN, addPeerLog,
                   shutdown, crashed, clsVars, obsVars>>

\* case <-s.shutdownCh: return
LanReturn ==
    /\ ~crashed
    /\ lan.pc = "select"
    /\ shutdown
    /\ lan' = [lan EXCEPT !.pc = "returned"]
    /\ UNCHANGED <<wanVars, eventChLAN, tasks, raftPeers, serfLAN, addPeerLog,
                   shutdown, crashed, clsVars, obsVars>>

----------------------------------------------------------------------------
(* Specifications                                                          *)
(*                                                                         *)
(* The WAN pool (wanEventHandler, remoteConsuls) and the LAN pool          *)
(* (lanEventHandler, joinConsulServer) share nothing but the shutdown      *)
(* channel and the life of the process, so each is explored on its own:    *)
(* SpecWAN and SpecLAN.  Spec is the two together.  SpecClassify applies   *)
(* isConsulServer to one role tag.  SpecDispatch and SpecViews run the two *)
(* dispatchers side by side, SpecLock adds a reader of the directory,      *)
(* SpecLANFew, SpecLANFair and SpecConverge follow the joinConsulServer    *)
(* goroutines, the last two under a fair scheduler.                        *)

\* a reader of the directory that is not reading, and one that is
ReaderIdle    == "idle"
ReaderReading == "reading"

\* a reader of s.remoteConsuls takes s.remoteLock before it reads
ReaderLock ==
    /\ ~crashed
    /\ reader = ReaderIdle
    /\ remoteLock = "free"
    /\ remoteLock' = "reader"
    /\ reader' = ReaderReading
    /\ UNCHANGED <<eventChWAN, wan, remoteConsuls, lanVars, shutdown, crashed,
                   clsVars, handledWAN>>

\* the reader has read the directory and releases s.remoteLock
ReaderUnlock ==
    /\ ~crashed
    /\ reader = ReaderReading
    /\ remoteLock' = "free"
    /\ reader' = ReaderIdle
    /\ UNCHANGED <<eventChWAN, wan, remoteConsuls, lanVars, shutdown, crashed,
                   clsVars, handledWAN>>

NotYet == [panic |-> FALSE, ok |-> FALSE, dc |-> <<"?">>, port |-> 0 - 1]

\* the server after construction
Init ==
    /\ eventChWAN = <<>>
    /\ wan = WanIdle
    /\ remoteLock = "free"
    /\ remoteConsuls = <<>>
    /\ eventChLAN = <<>>
    /\ lan = LanIdle
    /\ tasks = EmptyBag
    /\ raftPeers = {}
    /\ serfLAN = InitSerfLAN
    /\ addPeerLog = {}
    /\ shutdown = FALSE
    /\ crashed = FALSE
    /\ role = <<>>
    /\ cls = NotYet
    /\ reader = ReaderIdle
    /\ handledWAN = <<>>

\* the WAN pool: wanEventHandler and the directory
NextWAN ==
    \/ WanSend
    \/ WanRecv
    \/ WanReturn
    \/ WanLoopEnd
    \/ WanPanic
    \/ WanSkip
    \/ WanLock
    \/ RemoteJoin
    \/ RemoteFailed
    \/ Shutdown

SpecWAN == Init /\ [][NextWAN]_vars

\* the LAN pool: lanEventHandler and the joinConsulServer goroutines
NextLAN ==
    \/ LanSend
    \/ SerfUpdate
    \/ LanJoin
    \/ LanOther
    \/ LanReturn
    \/ TaskStart
    \/ TaskPeersFail
    \/ TaskPeers
    \/ TaskAlive
    \/ TaskAddPeer
    \/ TaskAddPeerFail
    \/ TaskWait
    \/ Shutdown

SpecLAN == Init /\ [][NextLAN]_vars

\* the server: both pools, which share the shutdown channel and the process
Next == NextWAN \/ NextLAN

Spec == Init /\ [][Next]_vars

\* the two dispatchers side by side under a small load
NextDispatch ==
    \/ WanSendFew
    \/ WanRecv
    \/ WanReturn
    \/ WanLoopEnd
    \/ WanPanic
    \/ WanSkip
    \/ WanLock
    \/ RemoteJoin
    \/ RemoteFailed
    \/ LanSendFew
    \/ LanJoin
    \/ LanOther
    \/ LanReturn
    \/ Shutdown

SpecDispatch == Init /\ [][NextDispatch]_vars

\* the same, wanEventHandler keeping the history of the events it received
NextViews ==
    \/ WanSendFew
    \/ WanRecvLogged
    \/ WanReturn
    \/ WanLoopEnd
    \/ WanPanic
    \/ WanSkip
    \/ WanLock
    \/ RemoteJoin
    \/ RemoteFailed
    \/ LanSendFew
    \/ LanJoin
    \/ LanOther
    \/ LanReturn
    \/ Shutdown

SpecViews == Init /\ [][NextViews]_vars

\* wanEventHandler under a small load, and a reader of the directory
NextLock ==
    \/ WanSendFew
    \/ WanRecv
    \/ WanReturn
    \/ WanLoopEnd
    \/ WanPanic
    \/ WanSkip
    \/ WanLock
    \/ RemoteJoin
    \/ RemoteFailed
    \/ ReaderLock
    \/ ReaderUnlock
    \/ Shutdown

SpecLock == Init /\ [][NextLock]_vars

\* a step of some joinConsulServer goroutine
TaskNext ==
    \/ TaskStart
    \/ TaskPeersFail
    \/ TaskPeers
    \/ TaskAlive
    \/ TaskAddPeer
    \/ TaskAddPeerFail
    \/ TaskWait

\* the LAN pool under a small load
NextLANFew ==
    \/ LanSendFew
    \/ LanSendBad
    \/ SerfUpdate
    \/ LanJoin
    \/ LanOther
    \/ LanReturn
    \/ TaskStart
    \/ TaskPeersFail
    \/ TaskPeers
    \/ TaskAlive
    \/ TaskAddPeer
    \/ TaskAddPeerFail
    \/ TaskWait
    \/ Shutdown

SpecLANFew == Init /\ [][NextLANFew]_vars

\* the LAN pool under a fair scheduler: a goroutine that can run is run in
\* the end (its sleep ends, its calls return), and the select of
\* lanEventHandler, which picks at random among its ready cases, takes the
\* case of a closed shutdownCh in the end
SpecLANFair ==
    /\ Init
    /\ [][NextLANFew]_vars
    /\ WF_vars(TaskNext)
    /\ WF_vars(LanReturn)

\* the server with n1 alive in the member list of the LAN pool
InitConverge ==
    /\ eventChWAN = <<>>
    /\ wan = WanIdle
    /\ remoteLock = "free"
    /\ remoteConsuls = <<>>
    /\ eventChLAN = <<>>
    /\ lan = LanIdle
    /\ tasks = EmptyBag
    /\ raftPeers = {}
    /\ serfLAN = [n \in {NodeName, "n1"} |-> StatusAlive]
    /\ addPeerLog = {}
    /\ shutdown = FALSE
    /\ crashed = FALSE
    /\ role = <<>>
    /\ cls = NotYet
    /\ reader = ReaderIdle
    /\ handledWAN = <<>>

\* the LAN pool while shutdownCh stays open and n1 stays alive
NextConverge ==
    \/ LanSend
    \/ LanJoin
    \/ LanOther
    \/ TaskStart
    \/ TaskPeersFail
    \/ TaskPeers
    \/ TaskAlive
    \/ TaskAddPeer
    \/ TaskAddPeerFail
    \/ TaskWait

\* that pool under a fair scheduler, with Peers() and AddPeer not failing
\* for ever: a call that is made again and again succeeds in the end
SpecConverge ==
    /\ InitConverge
    /\ [][NextConverge]_vars
    /\ WF_vars(TaskNext)
    /\ SF_vars(TaskPeers)
    /\ SF_vars(TaskAddPeer)

----------------------------------------------------------------------------
(* Classification of one role tag *)

Huge == <<"9","9","9","9","9","9","9","9","9","9","9","9","9","9","9","9","9","9","9","9">>

\* first fields and further fields of the role tags under test
Heads  == { <<"c","o","n","s","u","l">>, <<"c","o","n","s","u">>, RoleNode, <<>> }
Fields == { <<>>, <<"d","c","1">>, <<"8","3","0","0">>, <<"0">>, <<"0","0","7">>,
            <<"x">>, <<"8","3","x">>, <<"-","1">>, <<"+","5">>, Huge }

\* the role tags of k fields joined by colons
RECURSIVE Tags(_)
Tags(k) ==
    IF k = 1 THEN Heads
    ELSE {t \o <<Colon>> \o f : t \in Tags(k - 1), f \in Fields}

ClassifyRoles == UNION {Tags(k) : k \in 1..MaxFields}

InitClassify ==
    /\ eventChWAN = <<>>
    /\ wan = WanIdle
    /\ remoteLock = "free"
    /\ remoteConsuls = <<>>
    /\ eventChLAN = <<>>
    /\ lan = LanIdle
    /\ tasks = EmptyBag
    /\ raftPeers = {}
    /\ serfLAN = InitSerfLAN
    /\ addPeerLog = {}
    /\ shutdown = FALSE
    /\ crashed = FALSE
    /\ role \in ClassifyRoles
    /\ cls = NotYet
    /\ reader = ReaderIdle
    /\ handledWAN = <<>>

\* ok, dc, port := s.isConsulServer(m) for a member with Role = role
Classify ==
    /\ cls = NotYet
    /\ cls' = isConsulServer(role)
    /\ UNCHANGED <<wanVars, lanVars, shutdown, crashed, role, obsVars>>

NextClassify == Classify

SpecClassify == InitClassify /\ [][NextClassify]_vars

\* text of an integer: an optional sign and one or more decimal digits
IsIntegerText(p) ==
    LET d == IF p # <<>> /\ p[1] \in {"+", "-"} THEN Tail(p) ELSE p
    IN  d # <<>> /\ \A i \in 1..Len(d) : d[i] \in DigitSet

\* all digits, one at least
IsDigitText(p) == p # <<>> /\ \A i \in 1..Len(p) : p[i] \in DigitSet

Colons(r) == Cardinality({i \in 1..Len(r) : r[i] = Colon})

\* the text after the second colon of r
AfterSecondColon(r) ==
    LET i == CHOOSE i \in 1..Len(r) :
                r[i] = Colon /\ Cardinality({j \in 1..(i-1) : r[j] = Colon}) = 1
    IN  SubSeq(r, i + 1, Len(r))

\* a role tag without the marker, or with the marker and no port field, or
\* with a port field that is not the text of an integer
Malformed(r) ==
    \/ ~HasPrefix(r, Marker)
    \/ Colons(r) < 2
    \/ ~IsIntegerText(AfterSecondColon(r))

\* C5: isConsulServer returns (false, "", 0) for every malformed role tag,
\* and does not panic
C5_MalformedIsNotConsul ==
    (cls # NotYet /\ Malformed(role)) => cls = NotConsul

\* the value of the digits of p is an int of the build
FitsInt(p) == DigitsLeq(StripZeros(p), MaxIntDigits)

\* role tags marker:S:P with S free of colons and P all digits
WellFormed == {[S |-> f, P |-> g] : f \in Fields, g \in {p \in Fields : IsDigitText(p)}}

TagOf(t) == Marker \o t.S \o <<Colon>> \o t.P

\* C6 as stated: isConsulServer returns (true, S, P) for every marker:S:P
\* with P all digits
C6_Original ==
    \A t \in WellFormed :
        (cls # NotYet /\ role = TagOf(t)) =>
            /\ ~cls.panic
            /\ cls.ok
            /\ cls.dc = t.S
            /\ cls.port = DecValue(t.P)

\* C6 amended: isConsulServer returns (true, S, P) for every marker:S:P
\* with P all digits and the value of P an int of the build
C6_WellFormedIsConsul ==
    \A t \in WellFormed :
        (cls # NotYet /\ role = TagOf(t) /\ FitsInt(t.P)) =>
            /\ ~cls.panic
            /\ cls.ok
            /\ cls.dc = t.S
            /\ cls.port = DecValue(t.P)

\* C6 witness: consul:dc1:007 is classified as a server of dc1 on port 7
C6_Witness ==
    /\ role = Marker \o <<"d","c","1",":","0","0","7">>
    /\ cls = [panic |-> FALSE, ok |-> TRUE, dc |-> <<"d","c","1">>, port |-> 7]

----------------------------------------------------------------------------
(* The directory *)

\* the datacenter and the address remoteJoin / remoteFailed derive from m
DcOf(m)   == Classification(m).dc
AddrOf(m) == TCPAddr(m.Addr, Classification(m).port)

\* the loop of remoteJoin / remoteFailed has just left the critical section
\* of the member before wan.i
WanDone(types) ==
    /\ wan.pc = "loop"
    /\ wan.i > 1
    /\ wan.Type \in types
    /\ Classification(wan.Members[wan.i - 1]).ok

WanDoneMember == wan.Members[wan.i - 1]

\* C1: no datacenter's list of remoteConsuls holds two addresses with the
\* same host:port string, whatever joins, leaves and failures were handled
C1_NoDuplicateAddress ==
    \A dc \in DOMAIN remoteConsuls :
        \A i, j \in 1..Len(remoteConsuls[dc]) :
            i # j => AddrString(remoteConsuls[dc][i]) # AddrString(remoteConsuls[dc][j])

\* C1 witness: the 16-byte form of 10.0.0.1 has joined dc2 while the list
\* held the 4-byte form under the same host:port string
C1_Witness ==
    /\ WanDone({EventMemberJoin})
    /\ WanDoneMember = WanA16
    /\ wan.hit
    /\ \E i \in 1..Len(Lookup(remoteConsuls, DcOf(WanA))) :
            remoteConsuls[DcOf(WanA)][i] = AddrOf(WanA)

\* C2: a datacenter is a key of remoteConsuls only with a non-empty list
C2_KeyIffNonEmpty ==
    \A dc \in DOMAIN remoteConsuls : Len(remoteConsuls[dc]) > 0

\* C2 witness: a failure has removed the last address of a datacenter, whose
\* key is gone, while another datacenter is still a key
C2_Witness ==
    /\ WanDone({EventMemberFailed})
    /\ wan.hit
    /\ DcOf(WanDoneMember) \notin DOMAIN remoteConsuls
    /\ DOMAIN remoteConsuls # {}

\* C3: when remoteJoin leaves the critical section of a member, the
\* member's address is in the list of its datacenter; when remoteFailed
\* leaves it, the address is in the list no more, and the datacenter is no
\* key if the address was its only one
C3_JoinThenFail ==
    [][ /\ RemoteJoin =>
            AddrString(AddrOf(WanMember)) \in Strings(Lookup(remoteConsuls', DcOf(WanMember)))
        /\ RemoteFailed =>
            /\ AddrString(AddrOf(WanMember)) \notin Strings(Lookup(remoteConsuls', DcOf(WanMember)))
            /\ Strings(Lookup(remoteConsuls, DcOf(WanMember))) = {AddrString(AddrOf(WanMember))}
                    => DcOf(WanMember) \notin DOMAIN remoteConsuls'
      ]_vars

\* C3 witness: a leave of w1 has removed the only address of the directory,
\* which a join had put there
C3_Witness ==
    /\ WanDone({EventMemberLeave})
    /\ WanDoneMember = WanA
    /\ wan.hit
    /\ remoteConsuls = <<>>

\* the datacenter and address of every member of the WAN pool that
\* isConsulServer takes for a server
WanServers ==
    {[dc |-> DcOf(m), addr |-> AddrOf(m)] : m \in {x \in WanMembers : isConsulServer(x.Role).ok}}

\* C4: from every reachable directory, handling the join of a server twice
\* gives the directory of handling it once, with the address once in the
\* list of its datacenter
C4_JoinIdempotent ==
    \A s \in WanServers :
        LET once  == RemoteJoinMember(remoteConsuls, s.dc, s.addr)
            twice == RemoteJoinMember(once, s.dc, s.addr)
        IN  /\ twice = once
            /\ Count(Lookup(once, s.dc), AddrString(s.addr)) = 1

\* C4 witness: a join found its address in a list of three, which still
\* holds it once
C4_Witness ==
    /\ WanDone({EventMemberJoin})
    /\ wan.hit
    /\ Len(Lookup(remoteConsuls, DcOf(WanDoneMember))) = 3
    /\ Count(remoteConsuls[DcOf(WanDoneMember)], AddrString(AddrOf(WanDoneMember))) = 1

----------------------------------------------------------------------------
(* The join-retry goroutines *)

Tasks == BagToSet(tasks)

\* C7: a joinConsulServer goroutine for the member named like this node is
\* at its first statement or has returned from it: it reads no peer list,
\* and no AddPeer request is ever for that member
C7_SelfNeverAdded ==
    /\ \A t \in Tasks :
          t.m.Name = NodeName =>
              \/ t.pc = "start" /\ t.exit = "running"
              \/ t.pc = "done" /\ t.exit = "self"
    /\ \A e \in addPeerLog : e.m.Name # NodeName

\* C7 witness: the goroutine for this node has returned while Raft has a
\* peer, shutdown is raised and no request was made in its name
C7_Witness ==
    /\ \E t \in Tasks : t.m = LanSelf /\ t.pc = "done" /\ t.exit = "self"
    /\ raftPeers # {}
    /\ shutdown

\* the host:port strings of a set of addresses
StringsOf(peers) == {AddrString(p) : p \in peers}

\* C8: a goroutine whose last read of the peers holds its address has
\* returned for that reason, and every AddPeer request is for an address
\* that the peers read in the same iteration did not hold
C8_NoAddForKnownPeer ==
    /\ \A t \in Tasks :
          AddrString(TaskAddr(t)) \in StringsOf(t.peers) =>
              t.pc = "done" /\ t.exit = "peer"
    /\ \A e \in addPeerLog : AddrString(e.addr) \notin StringsOf(e.peers)

\* C8 witness: a goroutine found its address among the peers, where the
\* request of another goroutine had put it, and returned
C8_Witness ==
    \E t \in Tasks :
        /\ t.exit = "peer"
        /\ TaskAddr(t) \in t.peers
        /\ \E e \in addPeerLog : e.addr = TaskAddr(t)

\* C9: a goroutine that saw its member not alive in the member list has
\* returned for that reason, and every AddPeer request follows, in the same
\* iteration, a check that saw the member alive
C9_NoAddForDeadMember ==
    /\ \A t \in Tasks :
          /\ t.pc = "ADD" => t.live = StatusAlive
          /\ t.live \notin {Unchecked, StatusAlive} => t.pc = "done" /\ t.exit = "dead"
    /\ \A e \in addPeerLog : e.live = StatusAlive

\* C9 witness: the only goroutine made a request that failed, waited, and on
\* its retry saw that its member had left
C9_Witness ==
    /\ BagCardinality(tasks) = 1
    /\ \E t \in Tasks : t.exit = "dead" /\ t.live = StatusLeft
    /\ addPeerLog # {}

\* members of the LAN pool that are servers of this datacenter
LanLocalServers ==
    {m \in LanMembers : isConsulServer(m.Role).ok /\ isConsulServer(m.Role).dc = Datacenter}

\* C10: every joinConsulServer goroutine and every AddPeer request is for a
\* member whose role tag names the datacenter of this node
C10_OnlyLocalDatacenter ==
    /\ \A t \in Tasks : t.m \in LanLocalServers
    /\ \A e \in addPeerLog : e.m \in LanLocalServers

\* C10 witness: the join of n2, a server of dc2, was handled with a warning
\* and without a goroutine, then the join of n1 led to a request
C10_Witness ==
    /\ "n2" \in lan.warned
    /\ \A t \in Tasks : t.m = LanA
    /\ \E e \in addPeerLog : e.m = LanA

----------------------------------------------------------------------------
(* Claims on the course of a joinConsulServer goroutine *)

\* the goroutines of bag b at position pc, and those that returned for why
CountAt(b, pc) ==
    BagCardinality([t \in {x \in BagToSet(b) : x.pc = pc} |-> b[t]])

CountExit(b, why) ==
    BagCardinality([t \in {x \in BagToSet(b) : x.exit = why} |-> b[t]])

\* a goroutine that returned takes no further step: no finished record is
\* ever taken out of the bag
DoneStay ==
    \A t \in Tasks : t.pc = "done" => CopiesIn(t, tasks') >= CopiesIn(t, tasks)

C12_ShutdownEndsWait ==
    /\ [](\A t \in Tasks : t.exit = "shutdown" => t.pc = "done" /\ shutdown)
    /\ [][/\ DoneStay
          /\ (shutdown /\ CountAt(tasks', "WAIT") < CountAt(tasks, "WAIT")) =>
                /\ CountExit(tasks', "shutdown") = CountExit(tasks, "shutdown") + 1
                /\ CountAt(tasks', "CHECK") = CountAt(tasks, "CHECK")
                /\ addPeerLog' = addPeerLog
                /\ raftPeers' = raftPeers]_vars

\* C12 witness: a goroutine whose AddPeer had failed woke up after the
\* shutdown and returned
C12_Witness ==
    /\ shutdown
    /\ \E t \in Tasks : t.exit = "shutdown" /\ t.pc = "done"
    /\ addPeerLog # {}

\* the return statements of joinConsulServer, and for each what the
\* goroutine saw when it took it
ExitCauses == {"self", "peer", "dead", "added", "shutdown"}

ExitCause(t) ==
    CASE t.exit = "self"     -> IsSelf(t.m)
      [] t.exit = "peer"     -> IsPeer(t.peers, TaskAddr(t))
      [] t.exit = "dead"     -> NotAlive(t.live)
      [] t.exit = "added"    -> t.added = 1 /\ \E e \in addPeerLog : e.addr = TaskAddr(t)
      [] t.exit = "shutdown" -> shutdown
      [] OTHER               -> FALSE

\* C16: a failed Peers() or a failed AddPeer never ends a goroutine: a step
\* out of CHECK issues no AddPeer, a failure leads to WAIT, and a goroutine
\* leaves WAIT for CHECK unless the shutdown channel is closed; a goroutine
\* returns only for one of the five causes
C16_FailuresRetry ==
    /\ [](\A t \in Tasks :
            /\ t.pc = "done" <=> t.exit # "running"
            /\ t.pc = "done" => t.exit \in ExitCauses /\ ExitCause(t))
    /\ [][/\ CountAt(tasks', "CHECK") < CountAt(tasks, "CHECK") =>
                /\ addPeerLog' = addPeerLog
                /\ \/ CountAt(tasks', "WAIT") = CountAt(tasks, "WAIT") + 1
                   \/ CountAt(tasks', "ALIVE") = CountAt(tasks, "ALIVE") + 1
                   \/ CountExit(tasks', "peer") = CountExit(tasks, "peer") + 1
          /\ CountAt(tasks', "ADD") < CountAt(tasks, "ADD") =>
                \/ CountAt(tasks', "WAIT") = CountAt(tasks, "WAIT") + 1
                \/ CountExit(tasks', "added") = CountExit(tasks, "added") + 1
          /\ (~shutdown /\ CountAt(tasks', "WAIT") < CountAt(tasks, "WAIT")) =>
                /\ CountAt(tasks', "CHECK") = CountAt(tasks, "CHECK") + 1
                /\ CountAt(tasks', "done") = CountAt(tasks, "done")]_vars

\* C16 witness: a goroutine whose AddPeer failed is still running: it went
\* through WAIT back to CHECK, its request is in the log and its address is
\* not among the peers
C16_Witness ==
    /\ ~shutdown
    /\ \E t \in Tasks :
          /\ t.pc = "CHECK" /\ t.exit = "running"
          /\ \E e \in addPeerLog : e.addr = TaskAddr(t)
          /\ TaskAddr(t) \notin raftPeers

----------------------------------------------------------------------------
(* Claims on the two dispatchers *)

\* C13 as stated: once the shutdown channel is closed, a dispatcher at its
\* select receives no further event
C13_Original ==
    [][shutdown =>
          /\ wan.pc = "select" => Len(eventChWAN') >= Len(eventChWAN)
          /\ lan.pc = "select" => Len(eventChLAN') >= Len(eventChLAN)]_vars

\* C13: a dispatcher returns only from its select and only once the shutdown
\* channel is closed, leaving the pending events in its channel; after it
\* has returned it receives and handles nothing: its channel is not read,
\* the directory and the goroutines are as it left them
C13_ReturnedHandlesNothing ==
    [][/\ (wan'.pc = "returned" /\ wan.pc # "returned") =>
             /\ shutdown /\ wan.pc = "select"
             /\ eventChWAN' = eventChWAN /\ remoteConsuls' = remoteConsuls
       /\ wan.pc = "returned" =>
             /\ wan' = wan /\ handledWAN' = handledWAN
             /\ remoteConsuls' = remoteConsuls /\ remoteLock' = remoteLock
             /\ Len(eventChWAN') >= Len(eventChWAN)
       /\ (lan'.pc = "returned" /\ lan.pc # "returned") =>
             /\ shutdown /\ lan.pc = "select"
             /\ eventChLAN' = eventChLAN /\ tasks' = tasks
       /\ lan.pc = "returned" =>
             /\ lan' = lan /\ tasks' = tasks
             /\ Len(eventChLAN') >= Len(eventChLAN)]_vars

\* C13 witness: both dispatchers have returned with an event pending in
\* their channels, and wanEventHandler had handled a join before
C13_Witness ==
    /\ shutdown
    /\ wan.pc = "returned" /\ eventChWAN # <<>> /\ remoteConsuls # <<>>
    /\ lan.pc = "returned" /\ eventChLAN # <<>>

\* C14: wanEventHandler is in the critical section of remoteJoin or
\* remoteFailed exactly while it holds remoteLock, a reader reads exactly
\* while it holds it, and the two are never inside together; the directory
\* changes only in a step of the holder "wan", and every step out of the
\* critical section releases the lock, so that the lock is never held
\* outside it, not even when the process has died
C14_LockDiscipline ==
    /\ [](/\ wan.pc = "locked" <=> remoteLock = "wan"
          /\ reader = ReaderReading <=> remoteLock = "reader"
          /\ ~(wan.pc = "locked" /\ reader = ReaderReading)
          /\ crashed => remoteLock # "wan")
    /\ [][/\ remoteConsuls' # remoteConsuls =>
                remoteLock = "wan" /\ wan.pc = "locked" /\ reader = ReaderIdle
          /\ (wan.pc = "locked" /\ wan' # wan) =>
                remoteLock' = "free" /\ wan'.pc = "loop"
          /\ (reader = ReaderReading /\ wan' # wan) =>
                wan'.pc # "locked" /\ remoteConsuls' = remoteConsuls]_vars

\* C14 witness: a reader holds the lock on a directory that has entries
\* while wanEventHandler is at the Lock() call for a server
C14_Witness ==
    /\ reader = ReaderReading /\ remoteLock = "reader"
    /\ remoteConsuls # <<>>
    /\ wan.pc = "loop" /\ wan.i <= Len(wan.Members)
    /\ Classification(WanMember).ok

\* the directory after remoteJoin / remoteFailed handled member m
ApplyMember(dir, type, m) ==
    LET c == Classification(m)
    IN  IF ~c.ok THEN dir
        ELSE IF type = EventMemberJoin THEN RemoteJoinMember(dir, c.dc, AddrOf(m))
        ELSE RemoteFailedMember(dir, c.dc, AddrOf(m))

\* the directory after the first n of members were handled, one after another
RECURSIVE ApplyMembers(_, _, _, _)
ApplyMembers(dir, type, members, n) ==
    IF n = 0 THEN dir
    ELSE ApplyMember(ApplyMembers(dir, type, members, n - 1), type, members[n])

\* the directory after the whole of event e was handled
ApplyEvent(dir, e) ==
    IF e.Type \in MemberEventTypes
    THEN ApplyMembers(dir, e.Type, e.Members, Len(e.Members))
    ELSE dir

\* the directory after the first n of events were handled, one after another
RECURSIVE Replay(_, _)
Replay(events, n) ==
    IF n = 0 THEN <<>>
    ELSE ApplyEvent(Replay(events, n - 1), events[n])

LanNoOpTypes == {EventMemberLeave, EventMemberFailed, EventUser}

\* C19: the step in which lanEventHandler receives a leave, a failure or a
\* user event changes nothing but its channel: no goroutine is spawned or
\* moved, no request is logged, the peers and the directory are as before;
\* and the directory changes only in a step of wanEventHandler inside
\* remoteJoin or remoteFailed, with the LAN pool standing still
C19_LanNoOps ==
    [][/\ (/\ eventChLAN # <<>>
           /\ eventChLAN' = Tail(eventChLAN)
           /\ Head(eventChLAN).Type \in LanNoOpTypes) =>
             /\ tasks' = tasks /\ addPeerLog' = addPeerLog /\ raftPeers' = raftPeers
             /\ remoteConsuls' = remoteConsuls /\ remoteLock' = remoteLock
             /\ lan' = lan /\ wan' = wan
       /\ remoteConsuls' # remoteConsuls =>
             /\ wan.pc = "locked"
             /\ wan.Type \in {EventMemberJoin, EventMemberLeave, EventMemberFailed}
             /\ UNCHANGED lanVars]_vars

\* C19 witness: with an entry in the directory and a goroutine spawned,
\* lanEventHandler is at its select with the failure of n1 at the head of
\* its channel
C19_Witness ==
    /\ ~crashed
    /\ remoteConsuls # <<>>
    /\ tasks # EmptyBag
    /\ lan.pc = "select"
    /\ eventChLAN # <<>>
    /\ Head(eventChLAN) = Event(EventMemberFailed, <<LanA>>)

----------------------------------------------------------------------------
(* Claims on the frame of remoteFailed *)

\* C20: the step of remoteFailed for a member takes the candidate address of
\* that member, and nothing else, out of the list of its datacenter: as
\* sets of host:port strings the list after is the list before less that
\* address, no entry is doubled, the list of every other datacenter is the
\* same list, and when the address is not in the list (or the datacenter is
\* not a key) the directory is unchanged
C20_FailedRemovesOnlyThat ==
    [][(/\ wan.pc = "locked"
        /\ wan.Type \in {EventMemberLeave, EventMemberFailed}
        /\ wan' # wan) =>
          LET dc   == DcOf(WanMember)
              addr == AddrOf(WanMember)
              old  == Lookup(remoteConsuls, dc)
              new  == Lookup(remoteConsuls', dc)
          IN  /\ Strings(new) = Strings(old) \ {AddrString(addr)}
              /\ Len(new) = Len(old) - (IF Found(old, addr) THEN 1 ELSE 0)
              /\ \A a \in {old[k] : k \in 1..Len(old)} :
                    AddrString(a) # AddrString(addr) => Count(new, AddrString(a)) = 1
              /\ \A other \in (DOMAIN remoteConsuls \cup DOMAIN remoteConsuls') \ {dc} :
                    /\ other \in DOMAIN remoteConsuls /\ other \in DOMAIN remoteConsuls'
                    /\ remoteConsuls'[other] = remoteConsuls[other]
              /\ ~Found(old, addr) => remoteConsuls' = remoteConsuls]_vars

\* C20 witness: remoteFailed has just taken 10.0.0.1:8300 out of the list of
\* dc2, which keeps 10.0.0.2:8300, and the list of dc3 is still there
C20_Witness ==
    /\ WanDone({EventMemberLeave, EventMemberFailed})
    /\ wan.hit
    /\ WanDoneMember = WanA
    /\ Strings(Lookup(remoteConsuls, DcOf(WanB))) = {AddrString(AddrOf(WanB))}
    /\ Lookup(remoteConsuls, DcOf(WanD)) # <<>>

----------------------------------------------------------------------------
(* Claims on the end of the joinConsulServer goroutines *)

\* every goroutine has returned
AllReturned == \A t \in Tasks : t.pc = "done"

\* C17: once the shutdown channel is closed, every goroutine returns in the
\* end (or the process has died, which ends them all), whatever Peers() and
\* AddPeer answer
C17_ShutdownEndsTasks == shutdown ~> (crashed \/ AllReturned)

\* C17 witness: the shutdown channel is closed and two goroutines that were
\* waiting or about to read the peers when it closed have returned on it
C17_Witness ==
    /\ shutdown /\ ~crashed
    /\ AllReturned
    /\ CountExit(tasks, "shutdown") = 2

\* the goroutines of n1, a server of this datacenter that is not this node
TasksOfA == {t \in Tasks : t.m = LanA}

\* every goroutine of n1 has returned and the address of n1 is a peer
Converged ==
    /\ \A t \in TasksOfA : t.pc = "done" /\ t.exit \in {"added", "peer"}
    /\ AddrOf(LanA) \in raftPeers

\* C18 as stated: with shutdownCh open, n1 alive and the calls not failing
\* for ever, a goroutine for n1 returns in the end with the address of n1
\* among the peers
C18_Converges == (TasksOfA # {}) ~> Converged

\* what is left of C18 when the process dies: the goroutines of n1 converge
\* or the process has died on its way
C18_ConvergesUnlessCrashed == (TasksOfA # {}) ~> (crashed \/ Converged)

====
